---- MODULE Spec2Model ----
(***************************************************************************)
(* Attribute-based access control in front of a SQL store.                 *)
(*                                                                         *)
(* The store (sqlalchemy_sqlstore.py) pre-filters rows with a SQL WHERE    *)
(* fragment and re-checks every fetched row with is_action_allowed.  The   *)
(* route guards (decorator.py, server/access_control.py) evaluate a single *)
(* condition string against the current user.                             *)
(***************************************************************************)
EXTENDS Integers, Sequences, FiniteSets, TLC

VARIABLES rows, current_user, last, guard, actual_default, warned, database,
          metadata, creating, requests, failed_query, snapshots, oauth_states,
          issued, clock, exchanges, response

vars == <<rows, current_user, last, guard, actual_default, warned, database,
          metadata, creating, requests, failed_query, snapshots, oauth_states,
          issued, clock, exchanges, response>>

\* What construction fixes: the policy default_policy() returns and whether the
\* store logged a mismatch with its hardcoded copy.
startup == <<actual_default, warned>>

\* The table in the database and in the store's MetaData, and the call of
\* create_table or create_table_with_access_control that is under way.
schema_state == <<database, metadata, creating>>

\* Whether a query of this store has failed in the backend, and, by row id, the
\* access_attributes cell authorized_insert stored for each row it put into the
\* table that is still there.
history == <<failed_query, snapshots>>

\* The GitHub login router: its oauth_states dict, the states it has issued so
\* far, the wall clock in seconds, the token exchanges started per state and the
\* last response of its two routes.
oauth == <<oauth_states, issued, clock, exchanges, response>>

(***************************************************************************)
(* Bounds of the model.                                                    *)
(***************************************************************************)
MaxRows == 2

\* The logins of one run of the login router.
MaxLogins == 2

\* The callbacks that find one state in the dict, counted up to this number.
MaxAccepted == 2

(***************************************************************************)
(* Text.  A text is a sequence of characters, a character a string token.  *)
(* "U+00E9" names the single non-ASCII character e-acute.                  *)
(***************************************************************************)
NonAscii == {"U+00E9"}

\* The characters of each attribute value the inputs use.
Spell(v) ==
  CASE v = "a" -> <<"a">>
    [] v = "b" -> <<"b">>
    [] v = "u00e9" -> <<"U+00E9">>

RECURSIVE Concat(_)
Concat(ss) == IF ss = <<>> THEN <<>> ELSE Head(ss) \o Concat(Tail(ss))

RECURSIVE Join(_, _)
Join(ss, sep) ==
  IF ss = <<>> THEN <<>>
  ELSE IF Len(ss) = 1 THEN ss[1]
  ELSE ss[1] \o sep \o Join(Tail(ss), sep)

\* json.dumps of one character of a string (ensure_ascii=True): a quote and a
\* backslash get a backslash, a non-ASCII character becomes \uXXXX.
JsonEscapeChar(c) ==
  IF c = "\"" THEN <<"\\", "\"">>
  ELSE IF c = "\\" THEN <<"\\", "\\">>
  ELSE IF c \in NonAscii THEN <<"\\", "u", "0", "0", "e", "9">>
  ELSE <<c>>

JsonString(chars) ==
  <<"\"">> \o Concat([i \in 1..Len(chars) |-> JsonEscapeChar(chars[i])]) \o <<"\"">>

\* The JSON text of a list of values, with the given item separator.
JsonArray(vals, sep) ==
  <<"[">> \o Join([i \in 1..Len(vals) |-> JsonString(Spell(vals[i]))], sep) \o <<"]">>

(***************************************************************************)
(* Python values.  An attribute mapping (dict[str, list[str]] | None) is   *)
(* a record: kind "none" for None, kind "dict" with the mapping as a       *)
(* function from the categories it holds to their value lists.             *)
(***************************************************************************)
EmptyMap == [c \in {} |-> <<>>]

PyNone == [kind |-> "none", map |-> EmptyMap]

PyDict(m) == [kind |-> "dict", map |-> m]

\* Python truthiness of an attribute mapping: None and {} are falsy.
Truthy(py) == py.kind = "dict" /\ DOMAIN py.map # {}

\* The order in which a mapping's keys are written out.
CategoryOrder == <<"roles", "teams", "projects", "namespaces", "other">>

KeysOf(m) == SelectSeq(CategoryOrder, LAMBDA c : c \in DOMAIN m)

\* json.dumps of an attribute mapping, as the JSON column type stores it.
JsonDumps(py) ==
  IF py.kind = "none" THEN <<"n", "u", "l", "l">>
  ELSE LET ks == KeysOf(py.map)
           item(k) == JsonString(<<k>>) \o <<":", " ">> \o JsonArray(py.map[k], <<",", " ">>)
       IN <<"{">> \o Join([i \in 1..Len(ks) |-> item(ks[i])], <<",", " ">>) \o <<"}">>

(***************************************************************************)
(* users                                                                   *)
(***************************************************************************)
NoUser == [present |-> FALSE, principal |-> "", attributes |-> PyNone]

User(principal, attributes) ==
  [present |-> TRUE, principal |-> principal, attributes |-> attributes]

(***************************************************************************)
(* The access_attributes column.  A cell is SQL NULL (the column was left  *)
(* out of the insert, or added by migration) or holds the JSON text of a   *)
(* Python value; the model keeps the value and derives the text.           *)
(***************************************************************************)
SqlNullCell == [sqlnull |-> TRUE, py |-> PyNone]

JsonCell(py) == [sqlnull |-> FALSE, py |-> py]

\* The Python value a fetched row carries for the column.
Loaded(cell) == cell.py

\* A SQL value: NULL or a text.
SqlNull == [null |-> TRUE, text |-> <<>>]

SqlText(t) == [null |-> FALSE, text |-> t]

ColumnValue(cell) == IF cell.sqlnull THEN SqlNull ELSE SqlText(JsonDumps(cell.py))

\* SQLite JSON_EXTRACT(access_attributes, '$.<key>'): NULL when the column is
\* NULL, is not an object or lacks the key, else the array's minified text.
JsonExtract(cell, key) ==
  IF cell.sqlnull \/ cell.py.kind = "none" \/ key \notin DOMAIN cell.py.map
  THEN SqlNull
  ELSE SqlText(JsonArray(cell.py.map[key], <<",">>))

Lower(c) == IF c = "A" THEN "a" ELSE IF c = "B" THEN "b" ELSE c

\* SQLite LIKE: % matches any run of characters, _ any one character, and
\* ASCII letters match without regard to case.
RECURSIVE LikeMatch(_, _)
LikeMatch(text, pattern) ==
  IF pattern = <<>> THEN text = <<>>
  ELSE IF Head(pattern) = "%"
       THEN LikeMatch(text, Tail(pattern))
            \/ (text # <<>> /\ LikeMatch(Tail(text), pattern))
  ELSE /\ text # <<>>
       /\ (Head(pattern) = "_" \/ Lower(Head(pattern)) = Lower(Head(text)))
       /\ LikeMatch(Tail(text), Tail(pattern))

\* A comparison with NULL is not true.
SqlLike(v, pattern) == ~v.null /\ LikeMatch(v.text, pattern)

SqlEquals(v, text) == ~v.null /\ v.text = text

(***************************************************************************)
(* Policy model.  A rule permits a set of actions when all its conditions  *)
(* hold; a condition is a string, kept here as its whitespace-separated    *)
(* words.                                                                  *)
(***************************************************************************)
Action == {"create", "read", "update", "delete"}

READ == "read"

OwnerCategories == <<"roles", "teams", "projects", "namespaces">>

AccessRule(actions, when) == [permit |-> actions, when |-> when]

InOwners(name) == <<"user", "in", "owners", name>>

default_policy ==
  << AccessRule(Action, [i \in 1..Len(OwnerCategories) |-> InOwners(OwnerCategories[i])]) >>

SQL_OPTIMIZED_POLICY ==
  << AccessRule(Action, << <<"user", "in", "owners", "roles">>,
                           <<"user", "in", "owners", "teams">>,
                           <<"user", "in", "owners", "projects">>,
                           <<"user", "in", "owners", "namespaces">> >>) >>

Condition(kind, name, value) == [kind |-> kind, name |-> name, value |-> value]

\* parse_condition: the six forms of the grammar; anything else is a ValueError.
parse_condition(words) ==
  CASE words = <<"user", "is", "owner">> -> Condition("UserIsOwner", "", "")
    [] words = <<"user", "is", "not", "owner">> -> Condition("UserIsNotOwner", "", "")
    [] Len(words) = 5 /\ words[1] = "user" /\ words[2] = "with" /\ words[4] = "in"
         -> Condition("UserWithValueInList", words[5], words[3])
    [] Len(words) = 6 /\ words[1] = "user" /\ words[2] = "with" /\ words[4] = "not"
         /\ words[5] = "in"
         -> Condition("UserWithValueNotInList", words[6], words[3])
    [] Len(words) = 4 /\ words[1] = "user" /\ words[2] = "in" /\ words[3] = "owners"
         -> Condition("UserInOwnersList", words[4], "")
    [] Len(words) = 5 /\ words[1] = "user" /\ words[2] = "not" /\ words[3] = "in"
         /\ words[4] = "owners"
         -> Condition("UserNotInOwnersList", words[5], "")
    [] OTHER -> Condition("ValueError", "", "")

Elems(s) == {s[i] : i \in 1..Len(s)}

\* The user's values for a category: none when the user has no attributes or
\* lacks the category.
UserValues(user, name) ==
  IF user.attributes.kind = "dict" /\ name \in DOMAIN user.attributes.map
  THEN Elems(user.attributes.map[name])
  ELSE {}

\* "user with V in C"
UserWithValueInList_matches(cond, user) == cond.value \in UserValues(user, cond.name)

\* "user with V not in C"
UserWithValueNotInList_matches(cond, user) == ~UserWithValueInList_matches(cond, user)

\* "user in owners C": a category the resource does not declare imposes no
\* restriction; one it declares needs the user to hold one of its values.
UserInOwnersList_matches(cond, resource, user) ==
  LET owned == resource.owner.attributes
  IN IF owned.kind = "none" \/ cond.name \notin DOMAIN owned.map
     THEN TRUE
     ELSE Elems(owned.map[cond.name]) \cap UserValues(user, cond.name) # {}

\* One condition string against (resource, user); a string that does not parse,
\* or a form the evaluator does not define, denies.
matches_condition(words, resource, user) ==
  LET cond == parse_condition(words)
  IN CASE cond.kind = "UserWithValueInList" -> UserWithValueInList_matches(cond, user)
       [] cond.kind = "UserWithValueNotInList" -> UserWithValueNotInList_matches(cond, user)
       [] cond.kind = "UserInOwnersList" -> UserInOwnersList_matches(cond, resource, user)
       [] OTHER -> FALSE

rule_applies(rule, action, resource, user) ==
  /\ action \in rule.permit
  /\ \A i \in 1..Len(rule.when) : matches_condition(rule.when[i], resource, user)

\* The authoritative evaluator.
is_action_allowed(policy, action, resource, user) ==
  IF ~Truthy(resource.owner.attributes) THEN TRUE
  ELSE IF ~user.present THEN FALSE
  ELSE LET rules == IF policy = <<>> THEN actual_default ELSE policy
       IN \E i \in 1..Len(rules) : rule_applies(rules[i], action, resource, user)

(***************************************************************************)
(* The store.                                                              *)
(***************************************************************************)
\* Python's str() of a natural number: its decimal digits.
RECURSIVE Str(_)
Str(n) ==
  LET digit == <<"0", "1", "2", "3", "4", "5", "6", "7", "8", "9">>[(n % 10) + 1]
  IN IF n < 10 THEN digit ELSE Str(n \div 10) \o digit

\* SqlRecord.__init__: a row adapted to a protected resource.
SqlRecord(record_id, table_name, access_attributes) ==
  [type |-> "sql_record::" \o table_name, identifier |-> record_id,
   owner |-> IF Truthy(access_attributes)
             THEN User("system", access_attributes)
             ELSE User("system_public", PyNone)]

\* The three SQL forms of a public row.
PublicOnly == [kind |-> "public", conds |-> {}]

\* "1=1"
AllRows == [kind |-> "all", conds |-> {}]

\* no where_sql
NoWhereSql == [kind |-> "none", conds |-> {}]

\* A where_sql the backend cannot parse ("INVALID SQL SYNTAX") or that names a
\* column the table does not have.
Malformed == [kind |-> "malformed", conds |-> {}]

_build_default_policy_where_clause(user) ==
  IF ~user.present \/ ~Truthy(user.attributes)
  THEN PublicOnly
  ELSE LET m == user.attributes.map
       IN [kind |-> "default",
           conds |-> {[key |-> k, values |-> m[k]] : k \in {c \in DOMAIN m : m[c] # <<>>}}]

\* Mutant: the conservative fragment filters by category as the optimized one does.
_build_conservative_where_clause_per_category(user) ==
  _build_default_policy_where_clause(user)

_build_conservative_where_clause(user) ==
  IF ~user.present THEN PublicOnly ELSE AllRows

\* Mutant: only a policy equal to the hardcoded one gets the optimized fragment.
_build_access_control_where_clause_by_value_only(policy, user) ==
  IF policy = SQL_OPTIMIZED_POLICY
  THEN _build_default_policy_where_clause(user)
  ELSE _build_conservative_where_clause(user)

_build_access_control_where_clause(policy, user) ==
  IF policy = <<>> \/ policy = SQL_OPTIMIZED_POLICY
  THEN _build_default_policy_where_clause(user)
  ELSE _build_conservative_where_clause(user)

\* Mutant: the public-row test without the empty-object form.
IsPublicSql_no_empty_object(cell) ==
  \/ ColumnValue(cell).null
  \/ SqlEquals(ColumnValue(cell), <<"n", "u", "l", "l">>)

\* access_attributes IS NULL OR access_attributes = 'null' OR access_attributes = '{}'
IsPublicSql(cell) ==
  \/ ColumnValue(cell).null
  \/ SqlEquals(ColumnValue(cell), <<"n", "u", "l", "l">>)
  \/ SqlEquals(ColumnValue(cell), <<"{", "}">>)

\* JSON_EXTRACT(access_attributes, '$.key') LIKE '%"value"%'
ValueCondition(cell, key, value) ==
  SqlLike(JsonExtract(cell, key), <<"%", "\"">> \o Spell(value) \o <<"\"", "%">>)

\* (category missing OR user matches category)
CategoryCondition(cell, cond) ==
  \/ JsonExtract(cell, cond.key).null
  \/ \E i \in 1..Len(cond.values) : ValueCondition(cell, cond.key, cond.values[i])

\* Whether the SQL backend selects a row under a WHERE fragment.  The fragments
\* hold no NOT, so a comparison with NULL counts as false.
EvalWhereSql(clause, cell) ==
  CASE clause.kind \in {"none", "all"} -> TRUE
    [] clause.kind = "public" -> IsPublicSql(cell)
    [] clause.kind = "default" ->
         \/ IsPublicSql(cell)
         \/ (clause.conds # {} /\ \A c \in clause.conds : CategoryCondition(cell, c))

\* A where mapping: missing (None) or a mapping from columns to values.
NoWhere == [given |-> FALSE, map |-> EmptyMap]

Where(m) == [given |-> TRUE, map |-> m]

WhereId(i) == Where([c \in {"id"} |-> i])

\* Python truthiness of a where argument: None and {} are falsy.
WhereTruthy(where) == where.given /\ DOMAIN where.map # {}

MatchesWhere(row, where) == \A c \in DOMAIN where.map : row[c] = where.map[c]

\* A limit: missing (None) or an integer.
NoLimit == [given |-> FALSE, n |-> 0]

Limit(n) == [given |-> TRUE, n |-> n]

\* Mutant: every column is sorted ascending, whatever its direction.
RECURSIVE Before_ascending_only(_, _, _)
Before_ascending_only(r1, r2, order_by) ==
  IF order_by = <<>> THEN FALSE
  ELSE LET col == Head(order_by)[1]
       IN IF r1[col] = r2[col] THEN Before_ascending_only(r1, r2, Tail(order_by))
          ELSE r1[col] < r2[col]

\* ORDER BY: row r1 comes strictly before r2 under the (column, direction) list.
RECURSIVE Before(_, _, _)
Before(r1, r2, order_by) ==
  IF order_by = <<>> THEN FALSE
  ELSE LET col == Head(order_by)[1]
           dir == Head(order_by)[2]
       IN IF r1[col] = r2[col] THEN Before(r1, r2, Tail(order_by))
          ELSE IF dir = "asc" THEN r1[col] < r2[col] ELSE r1[col] > r2[col]

\* Insert r into the sorted sequence rs after every row that is not after it.
RECURSIVE InsertSorted(_, _, _)
InsertSorted(r, rs, order_by) ==
  IF rs = <<>> THEN <<r>>
  ELSE IF Before(r, Head(rs), order_by) THEN <<r>> \o rs
  ELSE <<Head(rs)>> \o InsertSorted(r, Tail(rs), order_by)

RECURSIVE SortRows(_, _)
SortRows(rs, order_by) ==
  IF rs = <<>> THEN <<>>
  ELSE InsertSorted(rs[Len(rs)], SortRows(SubSeq(rs, 1, Len(rs) - 1), order_by), order_by)

Take(rs, n) == SubSeq(rs, 1, IF n < Len(rs) THEN n ELSE Len(rs))

\* The dict a fetch hands back for a stored row.
LoadRow(r) ==
  [id |-> r.id, name |-> r.name, access_attributes |-> Loaded(r.access_attributes)]

Result(raised, rs) == [raised |-> raised, rows |-> rs]

\* Mutant: a query the backend refuses is answered with no rows.
fetch_all_swallows(table, where, where_sql, limit, order_by) ==
  IF \E i \in 1..Len(order_by) : order_by[i][2] \notin {"asc", "desc"}
  THEN Result("ValueError", <<>>)
  ELSE IF where_sql.kind = "malformed"
  THEN Result("", <<>>)
  ELSE LET selected == SelectSeq(table, LAMBDA r :
                         /\ (WhereTruthy(where) => MatchesWhere(r, where))
                         /\ EvalWhereSql(where_sql, r.access_attributes))
           ordered == SortRows(selected, order_by)
           limited == IF limit.given /\ limit.n # 0 THEN Take(ordered, limit.n) ELSE ordered
       IN Result("", [i \in 1..Len(limited) |-> LoadRow(limited[i])])

\* SqlAlchemySqlStoreImpl.fetch_all: a bad direction is found while the query is
\* built; a malformed where_sql fails in session.execute.
fetch_all(table, where, where_sql, limit, order_by) ==
  IF \E i \in 1..Len(order_by) : order_by[i][2] \notin {"asc", "desc"}
  THEN Result("ValueError", <<>>)
  ELSE IF where_sql.kind = "malformed"
  THEN Result("OperationalError", <<>>)
  ELSE LET selected == SelectSeq(table, LAMBDA r :
                         /\ (WhereTruthy(where) => MatchesWhere(r, where))
                         /\ EvalWhereSql(where_sql, r.access_attributes))
           ordered == SortRows(selected, order_by)
           limited == IF limit.given /\ limit.n # 0 THEN Take(ordered, limit.n) ELSE ordered
       IN Result("", [i \in 1..Len(limited) |-> LoadRow(limited[i])])

\* SqlAlchemySqlStoreImpl.fetch_one: the result list is empty for None.
fetch_one(table, where, where_sql, order_by) ==
  LET res == fetch_all(table, where, where_sql, Limit(1), order_by)
  IN IF res.raised # "" THEN res ELSE Result("", Take(res.rows, 1))

\* The evaluator's verdict on a fetched row.
RowAllowed(policy, row, user) ==
  is_action_allowed(policy, READ, SqlRecord(Str(row.id), "t", row.access_attributes), user)

\* What authorized_fetch_all hands back, with two of its locals: the WHERE
\* fragment it built and the rows its query fetched.
AuthorizedResult(raised, rs, access_where, fetched) ==
  [raised |-> raised, rows |-> rs, access_where |-> access_where, fetched |-> fetched]

\* Mutant: the pre-filtered rows are returned without the evaluator pass.
authorized_fetch_all_no_recheck(table, policy, where, limit, order_by, user) ==
  LET access_where == _build_access_control_where_clause(policy, user)
      res == fetch_all(table, where, access_where, limit, order_by)
  IN AuthorizedResult(res.raised, res.rows, access_where, res.rows)

\* Mutant: the fetch is handed to fetch_all with no access control at all.
authorized_fetch_all_unfiltered(table, policy, where, limit, order_by, user) ==
  LET res == fetch_all(table, where, NoWhereSql, limit, order_by)
  IN AuthorizedResult(res.raised, res.rows, NoWhereSql, res.rows)

\* Mutant: the permitted rows are collected at the front of the list as they
\* are found, so they come out in reverse.
authorized_fetch_all_prepends(table, policy, where, limit, order_by, user) ==
  LET access_where == _build_access_control_where_clause(policy, user)
      res == fetch_all(table, where, access_where, limit, order_by)
      kept == SelectSeq(res.rows, LAMBDA row : RowAllowed(policy, row, user))
  IN AuthorizedResult(res.raised, [i \in 1..Len(kept) |-> kept[Len(kept) + 1 - i]],
                      access_where, res.rows)

\* SqlAlchemySqlStoreImpl.authorized_fetch_all
authorized_fetch_all(table, policy, where, limit, order_by, user) ==
  LET access_where == _build_access_control_where_clause(policy, user)
      res == fetch_all(table, where, access_where, limit, order_by)
  IN AuthorizedResult(res.raised,
                      SelectSeq(res.rows, LAMBDA row : RowAllowed(policy, row, user)),
                      access_where, res.rows)

\* Mutant: the call is made without the limit and the last row is handed back.
authorized_fetch_one_last(table, policy, where, order_by, user) ==
  LET res == authorized_fetch_all(table, policy, where, NoLimit, order_by, user)
  IN [res EXCEPT !.rows = IF res.rows = <<>> THEN <<>> ELSE <<res.rows[Len(res.rows)]>>]

\* SqlAlchemySqlStoreImpl.authorized_fetch_one: the result list is empty for None.
authorized_fetch_one(table, policy, where, order_by, user) ==
  LET res == authorized_fetch_all(table, policy, where, Limit(1), order_by, user)
  IN [res EXCEPT !.rows = Take(res.rows, 1)]

\* The cell an insert stores for its data: SQL NULL when the data has no
\* access_attributes key, else the JSON text of the value.
NoKey == [haskey |-> FALSE, py |-> PyNone]

Key(py) == [haskey |-> TRUE, py |-> py]

StoredCell(data_attrs) == IF data_attrs.haskey THEN JsonCell(data_attrs.py) ELSE SqlNullCell

\* Data that also has a value for the column name.
Named(data_attrs, n) == [haskey |-> data_attrs.haskey, py |-> data_attrs.py, name |-> n]

\* The name an insert stores: the data's, or SQL NULL, written 0, which sorts
\* before every name.
NameOf(data_attrs) == IF "name" \in DOMAIN data_attrs THEN data_attrs.name ELSE 0

\* SqlAlchemySqlStoreImpl.insert
insert(table, id, data_attrs) ==
  Append(table, [id |-> id, name |-> NameOf(data_attrs),
                 access_attributes |-> StoredCell(data_attrs)])

\* Mutant: the attributes of any present user are stored, empty or not.
authorized_insert_stores_empty(table, id, data_attrs, user) ==
  insert(table, id, [data_attrs EXCEPT !.haskey = TRUE,
                                       !.py = IF user.present THEN user.attributes ELSE PyNone])

\* Mutant: an access_attributes the caller put into data is kept.
authorized_insert_caller_wins(table, id, data_attrs, user) ==
  LET enhanced_data ==
        IF data_attrs.haskey THEN data_attrs
        ELSE [data_attrs EXCEPT !.haskey = TRUE,
                                !.py = IF user.present /\ Truthy(user.attributes)
                                       THEN user.attributes
                                       ELSE PyNone]
  IN insert(table, id, enhanced_data)

\* The caller's data mapping after authorized_insert: the method writes into
\* the copy dict(data), never into data.
authorized_insert_data_after(data_attrs, user) == data_attrs

\* SqlAlchemySqlStoreImpl.authorized_insert: the caller's access_attributes, if
\* any, is replaced by the current user's.
authorized_insert(table, id, data_attrs, user) ==
  LET enhanced_data ==
        [data_attrs EXCEPT !.haskey = TRUE,
                           !.py = IF user.present /\ Truthy(user.attributes)
                                  THEN user.attributes
                                  ELSE PyNone]
  IN insert(table, id, enhanced_data)

\* The columns a data mapping names besides id.
SetColumns(data_attrs) ==
  (IF data_attrs.haskey THEN {"access_attributes"} ELSE {})
    \cup (IF "name" \in DOMAIN data_attrs THEN {"name"} ELSE {})

\* UPDATE ... SET: every column the data names gets the data's value.
SetRow(r, data_attrs) ==
  [id |-> r.id,
   name |-> IF "name" \in DOMAIN data_attrs THEN data_attrs.name ELSE r.name,
   access_attributes |-> IF data_attrs.haskey THEN JsonCell(data_attrs.py)
                         ELSE r.access_attributes]

\* session.execute(stmt, data) of an UPDATE: data that names no column gives
\* the statement an empty SET list, which the database refuses.
ExecuteUpdate(table, data_attrs, where) ==
  IF SetColumns(data_attrs) = {} THEN [raised |-> "OperationalError", table |-> table]
  ELSE [raised |-> "",
        table |-> [i \in 1..Len(table) |->
                     IF MatchesWhere(table[i], where) THEN SetRow(table[i], data_attrs)
                     ELSE table[i]]]

\* Mutant: update without the check of where.
update_unguarded(table, data_attrs, where) == ExecuteUpdate(table, data_attrs, where)

\* SqlAlchemySqlStoreImpl.update: the new table, or the error raised.
update(table, data_attrs, where) ==
  IF ~WhereTruthy(where) THEN [raised |-> "ValueError", table |-> table]
  ELSE ExecuteUpdate(table, data_attrs, where)

\* SqlAlchemySqlStoreImpl.delete
delete(table, where) ==
  IF ~WhereTruthy(where) THEN [raised |-> "ValueError", table |-> table]
  ELSE [raised |-> "", table |-> SelectSeq(table, LAMBDA r : ~MatchesWhere(r, where))]

(***************************************************************************)
(* Construction and the table's schema.  The table is known in two places: *)
(* the database, and the store's MetaData once create_table has run in     *)
(* this process.  A table is absent or has a set of columns.               *)
(***************************************************************************)
\* _validate_sql_optimized_policy: whether the mismatch warning is logged.
\* Nothing else is kept of the comparison.
_validate_sql_optimized_policy(actual) == SQL_OPTIMIZED_POLICY # actual

Absent == [exists |-> FALSE, columns |-> {}]

Table(columns) == [exists |-> TRUE, columns |-> columns]

Outcome(raised, db, md) == [raised |-> raised, database |-> db, metadata |-> md]

\* SELECT name FROM sqlite_master WHERE type='table' AND name=:table_name
TableExists(db) == db.exists

\* PRAGMA table_info(:table_name) with the name as a bound parameter: SQLite
\* takes no parameter in a PRAGMA and answers with a syntax error.
PragmaTableInfo(db) == [raised |-> "OperationalError", columns |-> {}]

\* ALTER TABLE <table> ADD COLUMN access_attributes JSON
AddColumn(db) == Table(db.columns \cup {"access_attributes"})

\* _migrate_access_attributes_column: every error is swallowed.
_migrate_access_attributes_column(db) ==
  IF ~TableExists(db) THEN db
  ELSE LET info == PragmaTableInfo(db)
       IN IF info.raised # "" THEN db
          ELSE IF "access_attributes" \in info.columns THEN db
          ELSE AddColumn(db)

\* create_table up to its first await: an empty schema is refused, else the
\* table is registered in MetaData unless it is there already.
register_table(md, schema) ==
  IF schema = {} THEN [raised |-> "ValueError", metadata |-> md]
  ELSE [raised |-> "", metadata |-> IF md.exists THEN md ELSE Table(schema)]

\* metadata.create_all(tables=[sqlalchemy_table], checkfirst=True): the table is
\* created from its registered definition unless the database has a table of
\* that name.
create_all(db, registered) == IF db.exists THEN db ELSE registered

\* create_table_with_access_control: the schema handed to create_table.
enhanced_schema(schema) == schema \cup {"access_attributes"}

\* The keys of an insert's data.
DataColumns(data_attrs) == {"id"} \cup SetColumns(data_attrs)

\* insert, with the table as MetaData and the database know it.  The table
\* must be registered.  The INSERT names the keys of the data that are columns
\* of the registered table; a key that is none is left out without an error.
\* The database refuses the statement when it has no such table or lacks a
\* named column.  A column the statement does not name is stored as NULL
\* (written 0 for id and name).
insert_into(db, md, table, id, data_attrs) ==
  IF ~md.exists THEN [raised |-> "KeyError", table |-> table]
  ELSE LET named == DataColumns(data_attrs) \cap md.columns
       IN IF ~db.exists \/ ~(named \subseteq db.columns)
          THEN [raised |-> "OperationalError", table |-> table]
          ELSE [raised |-> "",
                table |-> Append(table,
                  [id |-> IF "id" \in named THEN id ELSE 0,
                   name |-> IF "name" \in named THEN NameOf(data_attrs) ELSE 0,
                   access_attributes |-> IF "access_attributes" \in named
                                         THEN StoredCell(data_attrs)
                                         ELSE SqlNullCell])]

(***************************************************************************)
(* The route guards.  Both evaluate one condition string against the user  *)
(* and keep only the two "user with" forms; they differ on a missing user. *)
(***************************************************************************)
Verdict(allowed, raised) == [allowed |-> allowed, raised |-> raised]

\* Mutant: every parseable form is evaluated, with the user as the owner of the
\* dummy resource.
EvaluateCondition_any_form(condition, user) ==
  LET cond == parse_condition(condition)
  IN IF cond.kind = "ValueError" THEN Verdict(FALSE, "ValueError")
     ELSE IF cond.kind = "UserWithValueInList"
          THEN Verdict(UserWithValueInList_matches(cond, user), "")
     ELSE IF cond.kind = "UserWithValueNotInList"
          THEN Verdict(UserWithValueNotInList_matches(cond, user), "")
     ELSE Verdict(cond.kind \in {"UserIsOwner", "UserInOwnersList"}, "")

\* The body of the try block of both _evaluate_policy functions: an error of
\* parse_condition leaves it as a ValueError.
EvaluateCondition(condition, user) ==
  LET cond == parse_condition(condition)
  IN IF cond.kind = "ValueError" THEN Verdict(FALSE, "ValueError")
     ELSE IF cond.kind = "UserWithValueInList"
          THEN Verdict(UserWithValueInList_matches(cond, user), "")
     ELSE IF cond.kind = "UserWithValueNotInList"
          THEN Verdict(UserWithValueNotInList_matches(cond, user), "")
     ELSE Verdict(FALSE, "")

\* Mutant: the errors of the try block are not caught.
CatchErrors_none(verdict) == verdict

\* except (ValueError, AttributeError): return False
CatchErrors(verdict) ==
  IF verdict.raised \in {"ValueError", "AttributeError"} THEN Verdict(FALSE, "") ELSE verdict

\* Mutant: the middleware denies a missing user, as the decorator does.
middleware_evaluate_policy_fail_closed(condition, user) ==
  IF ~user.present THEN Verdict(FALSE, "")
  ELSE CatchErrors(EvaluateCondition(condition, user))

\* server/access_control.py _evaluate_policy: no user means authentication is off.
middleware_evaluate_policy(condition, user) ==
  IF ~user.present THEN Verdict(TRUE, "")
  ELSE CatchErrors(EvaluateCondition(condition, user))

\* decorator.py _evaluate_policy: no user is denied.
decorator_evaluate_policy(condition, user) ==
  IF ~user.present THEN Verdict(FALSE, "")
  ELSE CatchErrors(EvaluateCondition(condition, user))

\* A guarded call: the user it read when it began, what it decided and did, the
\* messages it has handed to send, and where it is: waiting in its first send
\* ("start"), in its second ("body"), or past its own sends ("done").
GuardCall(kind, user, condition, evaluated, allowed, invoked, raised, sent, pc) ==
  [guard |-> kind, user |-> user, condition |-> condition, evaluated |-> evaluated,
   allowed |-> allowed, invoked |-> invoked, raised |-> raised, sent |-> sent,
   pc |-> pc]

\* Mutant: the wrapped function runs before the verdict is looked at.
requires_access_runs_first(policy, user) ==
  LET verdict == decorator_evaluate_policy(policy, user)
  IN GuardCall("decorator", user, policy, TRUE, verdict.allowed, 1,
               IF verdict.allowed THEN "" ELSE "AccessDeniedError", <<>>, "done")

\* requires_access: the wrapper around a route function, called once.
requires_access(policy, user) ==
  LET verdict == decorator_evaluate_policy(policy, user)
  IN IF verdict.raised # ""
     THEN GuardCall("decorator", user, policy, TRUE, FALSE, 0, verdict.raised, <<>>, "done")
     ELSE IF ~verdict.allowed
     THEN GuardCall("decorator", user, policy, TRUE, FALSE, 0, "AccessDeniedError", <<>>,
                    "done")
     ELSE GuardCall("decorator", user, policy, TRUE, TRUE, 1, "", <<>>, "done")

\* A route's access_control: missing (None) or a condition string; the empty
\* word list is the empty string.
NoAccessControl == [given |-> FALSE, condition |-> <<>>]

AccessControl(condition) == [given |-> TRUE, condition |-> condition]

\* The two messages of the 403 response.
ResponseStart403 == "http.response.start 403"

ResponseBody == "http.response.body"

\* Mutant: the return after the 403 response is missing, so the request also
\* goes on to the downstream app.
process_request_no_return(access_control, user) ==
  IF access_control.given /\ access_control.condition # <<>>
  THEN LET verdict == middleware_evaluate_policy(access_control.condition, user)
       IN IF verdict.raised # ""
          THEN GuardCall("middleware", user, access_control.condition, TRUE, FALSE, 0,
                         verdict.raised, <<>>, "done")
          ELSE IF ~verdict.allowed
          THEN GuardCall("middleware", user, access_control.condition, TRUE, FALSE, 1, "",
                         <<ResponseStart403>>, "start")
          ELSE GuardCall("middleware", user, access_control.condition, TRUE, TRUE, 1, "",
                         <<>>, "done")
  ELSE GuardCall("middleware", user, access_control.condition, FALSE, FALSE, 1, "", <<>>,
                 "done")

\* AccessControlMiddleware.process_request for a matched route, until it first
\* waits: a refused request has handed http.response.start to send, any other
\* has been passed to the downstream app.
process_request(access_control, user) ==
  IF access_control.given /\ access_control.condition # <<>>
  THEN LET verdict == middleware_evaluate_policy(access_control.condition, user)
       IN IF verdict.raised # ""
          THEN GuardCall("middleware", user, access_control.condition, TRUE, FALSE, 0,
                         verdict.raised, <<>>, "done")
          ELSE IF ~verdict.allowed
          THEN GuardCall("middleware", user, access_control.condition, TRUE, FALSE, 0, "",
                         <<ResponseStart403>>, "start")
          ELSE GuardCall("middleware", user, access_control.condition, TRUE, TRUE, 1, "",
                         <<>>, "done")
  ELSE GuardCall("middleware", user, access_control.condition, FALSE, FALSE, 1, "", <<>>,
                 "done")

\* process_request after its first send has returned: the body is handed to send.
send_body(call) == [call EXCEPT !.sent = Append(@, ResponseBody), !.pc = "body"]

\* process_request after its second send has returned: it returns.
send_returns(call) == [call EXCEPT !.pc = "done"]

\* A send that raises: process_request catches nothing, so the error leaves it
\* and nothing more is sent.
send_raises(call) == [call EXCEPT !.raised = "SendError", !.pc = "done"]

(***************************************************************************)
(* Inputs.                                                                 *)
(***************************************************************************)
Attrs1(c, vs) == PyDict([k \in {c} |-> vs])

Attrs2(c1, vs1, c2, vs2) == PyDict([k \in {c1, c2} |-> IF k = c1 THEN vs1 ELSE vs2])

\* Attribute mappings of users and of inserted data.
AttrInputs ==
  { PyNone,
    PyDict(EmptyMap),
    Attrs1("roles", <<"a">>),
    Attrs1("roles", <<"u00e9">>),
    Attrs1("roles", <<"b", "a">>),
    Attrs1("roles", <<>>),
    Attrs1("teams", <<"b">>),
    Attrs1("other", <<"a">>),
    Attrs2("roles", <<"a">>, "teams", <<"b">>) }

Users == {NoUser} \cup {User("alice", a) : a \in AttrInputs}

DataInputs == {NoKey} \cup {Key(a) : a \in AttrInputs}

\* Custom policies: one that looks only at the user, one that compares the user
\* with the owner's roles alone, and one that permits everyone.
AdminReads == << AccessRule({READ}, << <<"user", "with", "a", "in", "roles">> >>) >>

RoleOwners == << AccessRule({READ}, << <<"user", "in", "owners", "roles">> >>) >>

PermitAll == << AccessRule(Action, <<>>) >>

CustomPolicies == {AdminReads, RoleOwners, PermitAll}

Policies == {default_policy, <<>>} \cup CustomPolicies

Ids == 1..MaxRows

\* A missing where, an empty one, and one that names a row.
Wheres == {NoWhere, Where(EmptyMap), WhereId(1)}

FetchWheres == {NoWhere, WhereId(1)}

Limits == {NoLimit, Limit(0), Limit(1)}

\* The where_sql of a plain fetch: none, or the public-rows fragment.
WhereSqls == {NoWhereSql, PublicOnly}

OrderBys == {<<>>, << <<"id", "desc">> >>}

\* What a caller may put under access_attributes when it calls authorized_insert
\* or update.
CallerData == {NoKey, Key(Attrs1("roles", <<"a">>))}

\* Condition strings: the six forms of the grammar and strings outside it.
Parseable ==
  { <<"user", "with", "a", "in", "roles">>,
    <<"user", "with", "b", "in", "teams">>,
    <<"user", "with", "a", "not", "in", "roles">>,
    <<"user", "is", "owner">>,
    <<"user", "is", "not", "owner">>,
    <<"user", "in", "owners", "roles">>,
    <<"user", "not", "in", "owners", "roles">> }

Unparseable ==
  { <<"invalid", "condition", "format">>,
    <<"user", "has", "a">>,
    <<"user", "with", "a", "in">>,
    <<>> }

Conditions == Parseable \cup Unparseable

AccessControls == {NoAccessControl} \cup {AccessControl(c) : c \in Conditions}

(***************************************************************************)
(* State.  rows is the one table, in insertion order; current_user is the  *)
(* user of the request context; last is the store call the current request *)
(* made last, with what it returned; guard is the last route-guard call.   *)
(***************************************************************************)
Call(op, policy, where, limit, order_by, data, raised, rs) ==
  [op |-> op, policy |-> policy, where |-> where, limit |-> limit,
   order_by |-> order_by, data |-> data, raised |-> raised, rows |-> rs,
   where_sql |-> NoWhereSql, fetched |-> <<>>, data_after |-> data]

\* A fetch, with the WHERE fragment it ran with and the rows its query fetched.
FetchCall(op, policy, where, where_sql, limit, order_by, raised, rs, fetched) ==
  [Call(op, policy, where, limit, order_by, NoKey, raised, rs)
     EXCEPT !.where_sql = where_sql, !.fetched = fetched]

NoCall == Call("none", <<>>, NoWhere, NoLimit, <<>>, NoKey, "", <<>>)

NoGuard == GuardCall("none", NoUser, <<>>, FALSE, FALSE, 0, "", <<>>, "done")

\* The requests in flight, each with its context and the position of its call.
Requests == {"r1", "r2"}

Other(r) == CHOOSE q \in Requests : q # r

Request(pc, user, policy, enhanced, id, access_where, fetched, result) ==
  [pc |-> pc, user |-> user, policy |-> policy, enhanced |-> enhanced, id |-> id,
   access_where |-> access_where, fetched |-> fetched, result |-> result]

NoRequest == Request("none", NoUser, <<>>, NoKey, 0, NoWhereSql, <<>>, <<>>)

NoRequests == [r \in Requests |-> NoRequest]

(***************************************************************************)
(* The GitHub login router (auth_routes.py).  oauth_states maps each state *)
(* string still waiting for its callback to the time it was created and    *)
(* the redirect URL of its login.                                          *)
(***************************************************************************)
\* The age limit of a state, in seconds.
StateLifetime == 300

SecondsPerDay == 24 * 60 * 60

\* timedelta.seconds of a difference of delta whole seconds, delta >= 0: the
\* seconds within the last day; the days are a field of their own.
TimedeltaSeconds(delta) == delta % SecondsPerDay

\* The i-th value secrets.token_urlsafe(32) returns in this process; two calls
\* never return the same value.
Token(i) == <<"state", i>>

Tokens == {Token(i) : i \in 1..MaxLogins}

\* A state parameter no login has issued.
Forged == <<"invalid_state", 0>>

NoRedirect == "None"

\* config.allowed_redirect_urls
AllowedRedirectUrls == {"https://app/cb"}

StateData(created_at, redirect_url) == [created_at |-> created_at, redirect_url |-> redirect_url]

NoStates == [s \in {} |-> StateData(0, NoRedirect)]

\* (now - data["created_at"]).seconds > 300
Expired(now, created_at) == TimedeltaSeconds(now - created_at) > StateLifetime

\* cleanup_expired_states: the dict without the states it pops.
cleanup_expired_states(states, now) ==
  LET expired_states == {s \in DOMAIN states : Expired(now, states[s].created_at)}
  IN [s \in DOMAIN states \ expired_states |-> states[s]]

Response(route, state, status, detail) ==
  [route |-> route, state |-> state, status |-> status, detail |-> detail]

NoResponse == Response("none", Forged, 0, "")

\* What a route leaves behind: the dict, the states its membership test found,
\* the states whose token exchange it started, and its response.
RouteResult(states, accepted, started, resp) ==
  [states |-> states, accepted |-> accepted, started |-> started, response |-> resp]

\* github_login with the state the token generator returns.
github_login(states, now, redirect_url, state) ==
  LET cleaned == cleanup_expired_states(states, now)
  IN IF redirect_url # NoRedirect /\ AllowedRedirectUrls = {}
     THEN RouteResult(cleaned, {}, {},
                      Response("login", Forged, 400, "Redirect URLs not configured"))
     ELSE IF redirect_url # NoRedirect /\ redirect_url \notin AllowedRedirectUrls
     THEN RouteResult(cleaned, {}, {}, Response("login", Forged, 400, "Invalid redirect URL"))
     ELSE RouteResult([s \in DOMAIN cleaned \cup {state} |->
                         IF s = state THEN StateData(now, redirect_url) ELSE cleaned[s]],
                      {}, {}, Response("login", state, 307, "authorization url"))

\* Mutant: the state is looked up and left in the dict.
github_callback_keeps_state(states, now, state) ==
  IF state \notin DOMAIN states
  THEN RouteResult(states, {}, {}, Response("callback", state, 400, "Invalid state parameter"))
  ELSE IF Expired(now, states[state].created_at)
       THEN RouteResult(states, {state}, {}, Response("callback", state, 400, "State expired"))
       ELSE RouteResult(states, {state}, {state}, Response("callback", state, 0, "exchanging"))

\* github_callback up to its await: the state is checked and popped, and the
\* token exchange (complete_oauth_flow) is started for a state that is known and
\* not expired.
github_callback(states, now, state) ==
  IF state \notin DOMAIN states
  THEN RouteResult(states, {}, {}, Response("callback", state, 400, "Invalid state parameter"))
  ELSE LET state_data == states[state]
           popped == [s \in DOMAIN states \ {state} |-> states[s]]
       IN IF Expired(now, state_data.created_at)
          THEN RouteResult(popped, {state}, {}, Response("callback", state, 400, "State expired"))
          ELSE RouteResult(popped, {state}, {state}, Response("callback", state, 0, "exchanging"))

\* github_callback after its await, by what complete_oauth_flow did: the token
\* goes to the redirect URL of the login or into a JSON body; a ValueError
\* becomes 400 and any other error 500.  The HTTPException(400) raised for a
\* redirect URL outside the allowed list is raised inside the try, so it too
\* leaves as 500.
github_callback_completes(state, redirect_url, outcome) ==
  CASE outcome = "token" /\ redirect_url # NoRedirect
         /\ redirect_url \notin AllowedRedirectUrls ->
         Response("callback", state, 500, "Authentication failed")
    [] outcome = "token" /\ redirect_url # NoRedirect
         /\ redirect_url \in AllowedRedirectUrls ->
         Response("callback", state, 307, "redirect_url#token")
    [] outcome = "token" /\ redirect_url = NoRedirect ->
         Response("callback", state, 200, "access_token")
    [] outcome = "ValueError" -> Response("callback", state, 400, "ValueError")
    [] OTHER -> Response("callback", state, 500, "Authentication failed")

\* Per state: the callbacks that found it in the dict, the token exchanges
\* started and finished for it, and the redirect URL popped with it.
NoExchanges ==
  [s \in Tokens \cup {Forged} |->
     [accepted |-> 0, started |-> 0, finished |-> 0, redirect_url |-> NoRedirect]]

OAuthStart ==
  /\ oauth_states = NoStates
  /\ issued = {}
  /\ clock = 0
  /\ exchanges = NoExchanges
  /\ response = NoResponse

\* No create_table call is under way.  A call under way is at its migration
\* or at its create_all, and remembers the database table it started from.
NoCreate == [pc |-> "none", op |-> "", schema |-> {}, before |-> Absent]

\* The table of the store calls below was made by create_table_with_access_control
\* with the columns id and name on an empty database.
Created == Table({"id", "name", "access_attributes"})

Init ==
  /\ rows = <<>>
  /\ current_user = NoUser
  /\ last = NoCall
  /\ guard = NoGuard
  /\ actual_default = default_policy
  /\ warned = _validate_sql_optimized_policy(actual_default)
  /\ database = Created
  /\ metadata = Created
  /\ creating = NoCreate
  /\ requests = NoRequests
  /\ failed_query = FALSE
  /\ snapshots = <<>>
  /\ OAuthStart

\* The request context gets another user (or none).
SetUser(u) ==
  /\ last.op = "none"
  /\ (guard.guard = "none" \/ guard.pc # "done")
  /\ u # current_user
  /\ current_user' = u
  /\ UNCHANGED <<rows, last, guard, startup, history, oauth, schema_state, requests>>

\* The caller takes the result of its call.
Return ==
  /\ last.op # "none"
  /\ last' = NoCall
  /\ UNCHANGED <<rows, current_user, guard, startup, history, oauth, schema_state, requests>>

\* The record of what authorized_insert stored: the cell of the row just
\* appended is remembered under its id, and a deleted row's entry is dropped.
Remember(snaps, table) ==
  LET new == table[Len(table)]
  IN [i \in DOMAIN snaps \cup {new.id} |->
        IF i = new.id THEN new.access_attributes ELSE snaps[i]]

Forget(snaps, table) ==
  [i \in {j \in DOMAIN snaps : \E k \in 1..Len(table) : table[k].id = j} |-> snaps[i]]

\* The callers of this model give a new row the smallest id not in use.
FreshId == CHOOSE i \in Ids : /\ \A j \in 1..Len(rows) : rows[j].id # i
                              /\ \A k \in Ids : k < i => \E j \in 1..Len(rows) : rows[j].id = k

Insert(data) ==
  /\ last.op = "none"
  /\ Len(rows) < MaxRows
  /\ rows' = insert(rows, FreshId, data)
  /\ last' = Call("insert", <<>>, NoWhere, NoLimit, <<>>, data, "", <<>>)
  /\ UNCHANGED <<current_user, guard, startup, history, oauth, schema_state, requests>>

AuthorizedInsert(data) ==
  /\ last.op = "none"
  /\ Len(rows) < MaxRows
  /\ rows' = authorized_insert(rows, FreshId, data, current_user)
  /\ last' = [Call("authorized_insert", <<>>, NoWhere, NoLimit, <<>>, data, "", <<>>)
                EXCEPT !.data_after = authorized_insert_data_after(data, current_user)]
  /\ snapshots' = Remember(snapshots, rows')
  /\ UNCHANGED <<current_user, guard, startup, failed_query, oauth, schema_state, requests>>

AuthorizedFetchAll(policy, where, limit, order_by) ==
  /\ last.op = "none"
  /\ LET res == authorized_fetch_all(rows, policy, where, limit, order_by, current_user)
     IN last' = FetchCall("authorized_fetch_all", policy, where, res.access_where, limit,
                          order_by, res.raised, res.rows, res.fetched)
  /\ UNCHANGED <<rows, current_user, guard, startup, history, oauth, schema_state, requests>>

AuthorizedFetchOne(policy, where, order_by) ==
  /\ last.op = "none"
  /\ LET res == authorized_fetch_one(rows, policy, where, order_by, current_user)
     IN last' = FetchCall("authorized_fetch_one", policy, where, res.access_where, NoLimit,
                          order_by, res.raised, res.rows, res.fetched)
  /\ UNCHANGED <<rows, current_user, guard, startup, history, oauth, schema_state, requests>>

FetchAll(where, where_sql, limit, order_by) ==
  /\ last.op = "none"
  /\ LET res == fetch_all(rows, where, where_sql, limit, order_by)
     IN /\ last' = FetchCall("fetch_all", <<>>, where, where_sql, limit, order_by,
                             res.raised, res.rows, res.rows)
        /\ failed_query' = (failed_query \/ res.raised = "OperationalError")
        /\ UNCHANGED snapshots
  /\ UNCHANGED <<rows, current_user, guard, startup, oauth, schema_state, requests>>

FetchOne(where, where_sql, order_by) ==
  /\ last.op = "none"
  /\ LET res == fetch_one(rows, where, where_sql, order_by)
     IN last' = FetchCall("fetch_one", <<>>, where, where_sql, NoLimit, order_by,
                          res.raised, res.rows, res.rows)
  /\ UNCHANGED <<rows, current_user, guard, startup, history, oauth, schema_state, requests>>

Update(data, where) ==
  /\ last.op = "none"
  /\ LET res == update(rows, data, where)
     IN /\ rows' = res.table
        /\ last' = Call("update", <<>>, where, NoLimit, <<>>, data, res.raised, <<>>)
  /\ UNCHANGED <<current_user, guard, startup, history, oauth, schema_state, requests>>

Delete(where) ==
  /\ last.op = "none"
  /\ LET res == delete(rows, where)
     IN /\ rows' = res.table
        /\ last' = Call("delete", <<>>, where, NoLimit, <<>>, NoKey, res.raised, <<>>)
        /\ snapshots' = Forget(snapshots, res.table)
  /\ UNCHANGED <<current_user, guard, startup, failed_query, oauth, schema_state, requests>>

Next ==
  \/ \E u \in Users : SetUser(u)
  \/ Return
  \/ \E d \in DataInputs : Insert(d)
  \/ \E d \in CallerData : AuthorizedInsert(d)
  \/ \E p \in Policies, w \in FetchWheres, l \in Limits, o \in OrderBys :
       AuthorizedFetchAll(p, w, l, o)
  \/ \E p \in Policies, w \in FetchWheres, o \in OrderBys : AuthorizedFetchOne(p, w, o)
  \/ \E w \in FetchWheres, q \in WhereSqls, l \in Limits, o \in OrderBys : FetchAll(w, q, l, o)
  \/ \E w \in FetchWheres, q \in WhereSqls, o \in OrderBys : FetchOne(w, q, o)
  \/ \E d \in CallerData, w \in Wheres : Update(d, w)
  \/ \E w \in Wheres : Delete(w)

Spec == Init /\ [][Next]_vars

\* The store constructed where default_policy() no longer returns the hardcoded
\* policy: here it permits reading to the owners' roles alone.
DivergedDefaults == {RoleOwners}

InitDiverged ==
  /\ rows = <<>>
  /\ current_user = NoUser
  /\ last = NoCall
  /\ guard = NoGuard
  /\ actual_default \in DivergedDefaults
  /\ warned = _validate_sql_optimized_policy(actual_default)
  /\ database = Created
  /\ metadata = Created
  /\ creating = NoCreate
  /\ requests = NoRequests
  /\ failed_query = FALSE
  /\ snapshots = <<>>
  /\ OAuthStart

SpecDiverged == InitDiverged /\ [][Next]_vars

\* A store constructed on a database that may hold the table already: without
\* the access_attributes column (its rows then have no value for it), or with it.
Schemas == {{}, {"id"}, {"id", "name"}, {"id", "access_attributes"}}

LegacyTables == {Table({"id"}), Table({"id", "name"})}

\* Data of an insert: with or without access_attributes, with or without a name.
SchemaData == CallerData \cup {Named(NoKey, 1)}

StoredRows(cells) ==
  {<<>>} \cup {<< [id |-> 1, name |-> 0, access_attributes |-> c] >> : c \in cells}
         \cup {<< [id |-> 1, name |-> 0, access_attributes |-> c],
                   [id |-> 2, name |-> 0, access_attributes |-> d] >> :
                 c \in cells, d \in cells}

InitSchema ==
  /\ current_user = NoUser
  /\ last = NoCall
  /\ guard = NoGuard
  /\ actual_default = default_policy
  /\ warned = _validate_sql_optimized_policy(actual_default)
  /\ metadata = Absent
  /\ creating = NoCreate
  /\ requests = NoRequests
  /\ failed_query = FALSE
  /\ snapshots = <<>>
  /\ OAuthStart
  /\ \/ database = Absent /\ rows = <<>>
     \/ database \in LegacyTables /\ rows \in StoredRows({SqlNullCell})
     \/ database = Created
        /\ rows \in StoredRows({SqlNullCell, JsonCell(Attrs1("roles", <<"a">>))})

\* create_table until it first waits: the check of the schema and the
\* registration in MetaData.
CreateTable(schema) ==
  /\ last.op = "none"
  /\ creating.pc = "none"
  /\ LET res == register_table(metadata, schema)
     IN IF res.raised # ""
        THEN /\ last' = Call("create_table", <<>>, NoWhere, NoLimit, <<>>, NoKey,
                             res.raised, <<>>)
             /\ UNCHANGED schema_state
        ELSE /\ metadata' = res.metadata
             /\ creating' = [pc |-> "create", op |-> "create_table",
                             schema |-> schema, before |-> database]
             /\ UNCHANGED <<last, database>>
  /\ UNCHANGED <<rows, current_user, guard, startup, history, oauth, requests>>

\* create_table_with_access_control until it first waits, in the migration.
CreateTableWithAccessControl(schema) ==
  /\ last.op = "none"
  /\ creating.pc = "none"
  /\ creating' = [pc |-> "migrate", op |-> "create_table_with_access_control",
                  schema |-> schema, before |-> database]
  /\ UNCHANGED <<rows, current_user, last, guard, startup, history, oauth, database,
                 metadata, requests>>

\* The migration runs, and create_table follows until it waits: the enhanced
\* schema is registered.
Migrate ==
  /\ creating.pc = "migrate"
  /\ database' = _migrate_access_attributes_column(database)
  /\ metadata' = register_table(metadata, enhanced_schema(creating.schema)).metadata
  /\ creating' = [creating EXCEPT !.pc = "create"]
  /\ UNCHANGED <<rows, current_user, last, guard, startup, history, oauth, requests>>

\* create_all runs and the call returns.
CreateAll ==
  /\ last.op = "none"
  /\ creating.pc = "create"
  /\ database' = create_all(database, metadata)
  /\ creating' = NoCreate
  /\ last' = Call(creating.op, <<>>, NoWhere, NoLimit, <<>>, NoKey, "", <<>>)
  /\ UNCHANGED <<rows, current_user, guard, startup, history, oauth, metadata, requests>>

InsertInto(data) ==
  /\ last.op = "none"
  /\ Len(rows) < MaxRows
  /\ LET res == insert_into(database, metadata, rows, FreshId, data)
     IN /\ rows' = res.table
        /\ last' = Call("insert", <<>>, NoWhere, NoLimit, <<>>, data, res.raised, <<>>)
  /\ UNCHANGED <<current_user, guard, startup, history, oauth, schema_state, requests>>

NextSchema ==
  \/ \E schema \in Schemas : CreateTable(schema)
  \/ \E schema \in Schemas : CreateTableWithAccessControl(schema)
  \/ Migrate
  \/ CreateAll
  \/ \E d \in SchemaData : InsertInto(d)
  \/ Return

SpecSchema == InitSchema /\ [][NextSchema]_vars

(***************************************************************************)
(* The plain store on a table with the columns id, name and                *)
(* access_attributes: queries with every combination of where, where_sql,  *)
(* limit and order_by.                                                     *)
(***************************************************************************)
Names == {1, 2}

QueryData == {Named(d, n) : d \in {NoKey, Key(Attrs1("roles", <<"a">>))}, n \in Names}

QueryWheres == {NoWhere, Where([c \in {"name"} |-> 1])}

QueryWhereSqls == {NoWhereSql, PublicOnly, Malformed}

QueryLimits == {NoLimit} \cup {Limit(n) : n \in 0..MaxRows}

\* Lists of (column, direction): valid ones that leave no ties, and two with a
\* direction that is neither asc nor desc.
QueryOrderBys ==
  { <<>>,
    << <<"id", "asc">> >>,
    << <<"id", "desc">> >>,
    << <<"name", "asc">>, <<"id", "desc">> >>,
    << <<"name", "desc">>, <<"id", "asc">> >>,
    << <<"id", "ascending">> >>,
    << <<"name", "asc">>, <<"id", "">> >> }

NextQuery ==
  \/ \E d \in QueryData : Insert(d)
  \/ \E n \in Names, w \in QueryWheres : Update(Named(NoKey, n), w)
  \/ Delete(WhereId(1))
  \/ \E w \in QueryWheres, q \in QueryWhereSqls, l \in QueryLimits, o \in QueryOrderBys :
       FetchAll(w, q, l, o)
  \/ Return

SpecQuery == Init /\ [][NextQuery]_vars

(***************************************************************************)
(* The login router: logins, callbacks and the passing of time.            *)
(***************************************************************************)
\* Instants of the wall clock: 300 s, 301 s, one day, and one day and 301 s
\* after the first.
Times == {0, StateLifetime, StateLifetime + 1, SecondsPerDay,
          SecondsPerDay + StateLifetime + 1}

RedirectUrls == {NoRedirect, "https://app/cb", "https://evil/cb"}

ExchangeOutcomes == {"token", "ValueError", "Exception"}

\* Time passes.
Tick(t) ==
  /\ t > clock
  /\ clock' = t
  /\ UNCHANGED <<rows, current_user, last, guard, startup, history, schema_state, requests,
                 oauth_states, issued, exchanges, response>>

\* GET /auth/github/login
GithubLogin(redirect_url) ==
  /\ Cardinality(issued) < MaxLogins
  /\ LET state == Token(Cardinality(issued) + 1)
         res == github_login(oauth_states, clock, redirect_url, state)
     IN /\ oauth_states' = res.states
        /\ issued' = IF res.response.status = 307 THEN issued \cup {state} ELSE issued
        /\ response' = res.response
  /\ UNCHANGED <<rows, current_user, last, guard, startup, history, schema_state, requests,
                 clock, exchanges>>

\* GET /auth/github/callback, up to the await of the token exchange.
GithubCallback(state) ==
  /\ exchanges[state].accepted < MaxAccepted
  /\ LET res == github_callback(oauth_states, clock, state)
     IN /\ oauth_states' = res.states
        /\ exchanges' =
             [s \in DOMAIN exchanges |->
                [accepted |-> exchanges[s].accepted + (IF s \in res.accepted THEN 1 ELSE 0),
                 started |-> exchanges[s].started + (IF s \in res.started THEN 1 ELSE 0),
                 finished |-> exchanges[s].finished,
                 redirect_url |-> IF s \in res.started
                                  THEN oauth_states[s].redirect_url
                                  ELSE exchanges[s].redirect_url]]
        /\ response' = res.response
  /\ UNCHANGED <<rows, current_user, last, guard, startup, history, schema_state, requests,
                 issued, clock>>

\* The token exchange of a callback ends and the callback answers.
FinishExchange(state, outcome) ==
  /\ exchanges[state].started > exchanges[state].finished
  /\ exchanges' = [exchanges EXCEPT ![state].finished = @ + 1]
  /\ response' = github_callback_completes(state, exchanges[state].redirect_url, outcome)
  /\ UNCHANGED <<rows, current_user, last, guard, startup, history, schema_state, requests,
                 oauth_states, issued, clock>>

NextOAuth ==
  \/ \E t \in Times : Tick(t)
  \/ \E u \in RedirectUrls : GithubLogin(u)
  \/ \E s \in Tokens \cup {Forged} : GithubCallback(s)
  \/ \E s \in Tokens, o \in ExchangeOutcomes : FinishExchange(s, o)

SpecOAuth == Init /\ [][NextOAuth]_vars

\* A call of a route function wrapped by requires_access(policy).
RequiresAccess(policy) ==
  /\ guard.guard = "none"
  /\ guard' = requires_access(policy, current_user)
  /\ UNCHANGED <<rows, current_user, last, startup, history, oauth, schema_state, requests>>

\* A request for a matched route passes through AccessControlMiddleware; the
\* scope's user is the request's user.
ProcessRequest(access_control) ==
  /\ guard.guard = "none"
  /\ guard' = process_request(access_control, current_user)
  /\ UNCHANGED <<rows, current_user, last, startup, history, oauth, schema_state, requests>>

\* The first send of a refused request returns and the body follows.
SendBody ==
  /\ guard.pc = "start"
  /\ guard' = send_body(guard)
  /\ UNCHANGED <<rows, current_user, last, startup, history, oauth, schema_state, requests>>

\* The second send returns.
SendReturns ==
  /\ guard.pc = "body"
  /\ guard' = send_returns(guard)
  /\ UNCHANGED <<rows, current_user, last, startup, history, oauth, schema_state, requests>>

\* The send the request is waiting in raises (the client has gone).
SendRaises ==
  /\ guard.pc \in {"start", "body"}
  /\ guard' = send_raises(guard)
  /\ UNCHANGED <<rows, current_user, last, startup, history, oauth, schema_state, requests>>

\* The guarded request ends.
GuardReturn ==
  /\ guard.guard # "none"
  /\ guard.pc = "done"
  /\ guard' = NoGuard
  /\ UNCHANGED <<rows, current_user, last, startup, history, oauth, schema_state, requests>>

NextGuard ==
  \/ \E u \in Users : SetUser(u)
  \/ \E c \in Conditions : RequiresAccess(c)
  \/ \E a \in AccessControls : ProcessRequest(a)
  \/ SendBody
  \/ SendReturns
  \/ SendRaises
  \/ GuardReturn

SpecGuard == Init /\ [][NextGuard]_vars

(***************************************************************************)
(* Concurrent requests.  Each request runs in its own context, which holds *)
(* its user; a store call is suspended at its awaits, where another        *)
(* request's call may run.                                                 *)
(***************************************************************************)
\* get_authenticated_user(), called in the context of request r.
get_authenticated_user(reqs, r) == reqs[r].user

\* authorized_insert up to its first await: the data with the user's attributes.
authorized_insert_enhanced_data(reqs, r) ==
  LET user == get_authenticated_user(reqs, r)
  IN IF user.present /\ Truthy(user.attributes) THEN Key(user.attributes) ELSE Key(PyNone)

\* authorized_fetch_all up to its first await: the WHERE fragment.
authorized_fetch_all_access_where(reqs, r) ==
  _build_access_control_where_clause(reqs[r].policy, get_authenticated_user(reqs, r))

\* Mutant: the re-check reads the user another request in flight has left behind.
authorized_fetch_all_recheck_shared(reqs, r) ==
  LET user == IF reqs[Other(r)].pc # "none" THEN reqs[Other(r)].user ELSE reqs[r].user
  IN SelectSeq(reqs[r].fetched, LAMBDA row : RowAllowed(reqs[r].policy, row, user))

\* authorized_fetch_all after the query: the user is read again and every
\* fetched row re-checked.
authorized_fetch_all_recheck(reqs, r) ==
  LET user == get_authenticated_user(reqs, r)
  IN SelectSeq(reqs[r].fetched, LAMBDA row : RowAllowed(reqs[r].policy, row, user))

ConcurrentUsers ==
  {NoUser, User("alice", Attrs1("roles", <<"a">>)), User("bob", Attrs1("roles", <<"b">>))}

ConcurrentPolicies == {default_policy, RoleOwners}

\* A request arrives and the authentication layer binds its user.
StartRequest(r, u) ==
  /\ requests[r].pc = "none"
  /\ requests' = [requests EXCEPT ![r] = [NoRequest EXCEPT !.pc = "ready", !.user = u]]
  /\ UNCHANGED <<rows, current_user, last, guard, startup, history, oauth, schema_state>>

BeginAuthorizedInsert(r) ==
  /\ requests[r].pc = "ready"
  /\ Len(rows) < MaxRows
  /\ requests' = [requests EXCEPT ![r].pc = "inserting",
                                  ![r].enhanced = authorized_insert_enhanced_data(requests, r)]
  /\ UNCHANGED <<rows, current_user, last, guard, startup, history, oauth, schema_state>>

\* The insert's transaction runs.
CommitInsert(r) ==
  /\ requests[r].pc = "inserting"
  /\ Len(rows) < MaxRows
  /\ rows' = insert(rows, FreshId, requests[r].enhanced)
  /\ requests' = [requests EXCEPT ![r].pc = "inserted", ![r].id = FreshId]
  /\ snapshots' = Remember(snapshots, rows')
  /\ UNCHANGED <<current_user, last, guard, startup, failed_query, oauth, schema_state>>

BeginAuthorizedFetchAll(r, policy) ==
  /\ requests[r].pc = "ready"
  /\ LET began == [requests EXCEPT ![r].pc = "querying", ![r].policy = policy]
     IN requests' = [began EXCEPT ![r].access_where =
                                    authorized_fetch_all_access_where(began, r)]
  /\ UNCHANGED <<rows, current_user, last, guard, startup, history, oauth, schema_state>>

\* The fetch's query runs.
RunQuery(r) ==
  /\ requests[r].pc = "querying"
  /\ requests' = [requests EXCEPT
                    ![r].pc = "fetched",
                    ![r].fetched = fetch_all(rows, NoWhere, requests[r].access_where,
                                             NoLimit, <<>>).rows]
  /\ UNCHANGED <<rows, current_user, last, guard, startup, history, oauth, schema_state>>

FinishFetch(r) ==
  /\ requests[r].pc = "fetched"
  /\ requests' = [requests EXCEPT ![r].pc = "returned",
                                  ![r].result = authorized_fetch_all_recheck(requests, r)]
  /\ UNCHANGED <<rows, current_user, last, guard, startup, history, oauth, schema_state>>

\* The request ends and its context is dropped.
EndRequest(r) ==
  /\ requests[r].pc \in {"inserted", "returned"}
  /\ requests' = [requests EXCEPT ![r] = NoRequest]
  /\ UNCHANGED <<rows, current_user, last, guard, startup, history, oauth, schema_state>>

NextConcurrent ==
  \/ \E r \in Requests, u \in ConcurrentUsers : StartRequest(r, u)
  \/ \E r \in Requests : BeginAuthorizedInsert(r)
  \/ \E r \in Requests : CommitInsert(r)
  \/ \E r \in Requests, p \in ConcurrentPolicies : BeginAuthorizedFetchAll(r, p)
  \/ \E r \in Requests : RunQuery(r)
  \/ \E r \in Requests : FinishFetch(r)
  \/ \E r \in Requests : EndRequest(r)

SpecConcurrent == Init /\ [][NextConcurrent]_vars

(***************************************************************************)
(* Properties of the store.                                                *)
(***************************************************************************)
IsFetchAll == last.op = "authorized_fetch_all" /\ last.raised = ""

IsFetch == last.op \in {"authorized_fetch_all", "authorized_fetch_one"} /\ last.raised = ""

IsDefault(policy) == policy = default_policy

Unlimited == ~(last.limit.given /\ last.limit.n # 0)

Returned(row) == \E i \in 1..Len(last.rows) : last.rows[i] = LoadRow(row)

Stored(i) == rows[i].access_attributes

\* The evaluator's verdict on the i-th stored row, read with its stored attributes.
Permits(policy, i, user) ==
  is_action_allowed(policy, READ, SqlRecord(Str(rows[i].id), "t", Loaded(Stored(i))), user)

\* The evaluator's verdict on a returned row.
PermitsRow(policy, row, user) ==
  is_action_allowed(policy, READ, SqlRecord(Str(row.id), "t", row.access_attributes), user)

PreFiltered(i) ==
  EvalWhereSql(_build_access_control_where_clause(last.policy, current_user), Stored(i))

\* C1: under the default policy, authorized_fetch_all with no where and no limit
\* returns a row if and only if the evaluator permits the current user to read it.
C1_Consistency ==
  (IsFetchAll /\ IsDefault(last.policy) /\ ~WhereTruthy(last.where) /\ Unlimited)
    => \A i \in 1..Len(rows) :
         Returned(rows[i]) <=> Permits(default_policy, i, current_user)

\* C2: every row authorized_fetch_all or authorized_fetch_one returns is one the
\* evaluator permits the current user to read under the policy of the call.
C2_ReturnedRowsAllowed ==
  IsFetch => \A i \in 1..Len(last.rows) : PermitsRow(last.policy, last.rows[i], current_user)

\* C2 witness: a fetch whose pre-filter let a row through that the evaluator denies.
C2_Witness ==
  /\ IsFetchAll /\ ~WhereTruthy(last.where) /\ Unlimited
  /\ \E i \in 1..Len(rows) :
       /\ PreFiltered(i)
       /\ ~Permits(last.policy, i, current_user)
       /\ ~Returned(rows[i])
  /\ \E i \in 1..Len(rows) : Returned(rows[i])

\* C3: under the default policy the WHERE fragment selects every row the evaluator
\* permits the current user to read.
C3_NoOverFilter ==
  (IsFetchAll /\ IsDefault(last.policy))
    => \A i \in 1..Len(rows) :
         Permits(default_policy, i, current_user)
           => EvalWhereSql(_build_default_policy_where_clause(current_user), Stored(i))

IsPublicCell(cell) ==
  cell = SqlNullCell \/ cell = JsonCell(PyNone) \/ cell = JsonCell(PyDict(EmptyMap))

\* C4: a row stored as SQL NULL, JSON null or {} is adapted to the public owner and
\* is returned to every current user by an unlimited authorized_fetch_all under the
\* default policy whose where it matches.
C4_PublicRowsVisible ==
  (IsFetchAll /\ IsDefault(last.policy) /\ Unlimited)
    => \A i \in 1..Len(rows) :
         (IsPublicCell(Stored(i)) /\ (WhereTruthy(last.where) => MatchesWhere(rows[i], last.where)))
           => /\ Returned(rows[i])
              /\ SqlRecord(Str(rows[i].id), "t", Loaded(Stored(i))).owner
                   = User("system_public", PyNone)

\* C4 witness: an empty-object row returned to a user whose attributes match nothing
\* else in the table.
C4_Witness ==
  /\ IsFetchAll /\ IsDefault(last.policy) /\ Unlimited
  /\ current_user.present /\ Truthy(current_user.attributes)
  /\ Len(last.rows) = 1 /\ Len(rows) = 2
  /\ \E i \in 1..Len(rows) : Stored(i) = JsonCell(PyDict(EmptyMap)) /\ Returned(rows[i])

\* C5: with no authenticated user, authorized_fetch_all and authorized_fetch_one
\* return only rows without owner attributes, whatever the policy.
C5_AnonymousSeesPublicOnly ==
  (IsFetch /\ ~current_user.present)
    => \A i \in 1..Len(last.rows) : ~Truthy(last.rows[i].access_attributes)

\* C5 witness: an anonymous fetch under a custom policy that leaves out a row with
\* owner attributes and returns a public one.
C5_Witness ==
  /\ IsFetch /\ ~current_user.present /\ last.policy \in CustomPolicies
  /\ Len(last.rows) = 1
  /\ \E i \in 1..Len(rows) : Truthy(Loaded(Stored(i))) /\ ~Returned(rows[i])

WhereMatches(i) == WhereTruthy(last.where) => MatchesWhere(rows[i], last.where)

\* Whether authorized_insert stored the i-th row, and the cell it stored then.
HasSnapshot(i) == rows[i].id \in DOMAIN snapshots

Snapshot(i) == snapshots[rows[i].id]

\* The pre-filter and the evaluator of the last fetch, applied to what
\* authorized_insert stored for the i-th row.
PreFilteredSnapshot(i) ==
  EvalWhereSql(_build_access_control_where_clause(last.policy, current_user), Snapshot(i))

PermitsSnapshot(policy, i, user) ==
  is_action_allowed(policy, READ, SqlRecord(Str(rows[i].id), "t", Loaded(Snapshot(i))), user)

\* C7: a row stored by authorized_insert keeps, for as long as it is in the
\* table, the access_attributes stored with it at insert time, whatever happens
\* to the current user afterwards; and every later authorized_fetch_all, under
\* any policy, for any user or none, with any where, decides the row against
\* that snapshot: without a limit it returns the row exactly when the where
\* matches it and the pre-filter and the evaluator pass the snapshot, and with a
\* limit it returns the row only then.
C7_DecidedBySnapshot ==
  /\ \A i \in 1..Len(rows) : HasSnapshot(i) => Stored(i) = Snapshot(i)
  /\ IsFetchAll
       => \A i \in 1..Len(rows) :
            HasSnapshot(i)
              => LET decided == /\ WhereMatches(i)
                                /\ PreFilteredSnapshot(i)
                                /\ PermitsSnapshot(last.policy, i, current_user)
                 IN /\ Returned(rows[i]) => decided
                    /\ Unlimited => (Returned(rows[i]) <=> decided)

\* C8: update and delete called with an empty or missing where raise an error and
\* leave the table as it was.
C8_WhereRequired ==
  [][(last'.op \in {"update", "delete"} /\ ~WhereTruthy(last'.where))
       => (last'.raised = "ValueError" /\ rows' = rows)]_vars

\* C8 witness: an update with an empty where refused on a table that has rows.
C8_Witness ==
  /\ last.op = "update" /\ last.where = Where(EmptyMap) /\ last.raised = "ValueError"
  /\ Len(rows) > 0

\* Whether the WHERE fragment of the last fetch selects the i-th stored row.
Selected(i) == EvalWhereSql(last.where_sql, Stored(i))

\* The optimized fragment is one of these two kinds, the conservative fragment
\* for a user that is present is "1=1".
IsOptimized(clause) == clause.kind \in {"public", "default"}

\* C12 as stated: for a user that is present, a fetch runs with the optimized
\* fragment if and only if its policy equals the hardcoded default policy by
\* value, and with the conservative fragment for every other policy.
C12_OptimizedOnlyForDefault ==
  (IsFetch /\ current_user.present)
    => /\ IsOptimized(last.where_sql) <=> last.policy = SQL_OPTIMIZED_POLICY
       /\ last.where_sql = AllRows <=> last.policy # SQL_OPTIMIZED_POLICY

\* C12 amended: the optimized fragment is used if and only if the policy is empty
\* or equals the hardcoded default policy by value; every other policy gets the
\* conservative fragment.
C12_OptimizedForDefaultOrEmpty ==
  IsFetch
    => /\ current_user.present
            => /\ IsOptimized(last.where_sql) <=> last.policy \in {<<>>, SQL_OPTIMIZED_POLICY}
               /\ last.where_sql = AllRows <=> last.policy \notin {<<>>, SQL_OPTIMIZED_POLICY}
       /\ ~current_user.present => last.where_sql = PublicOnly

\* C12 witness: a fetch with the empty policy ran with per-category conditions
\* and its query left a stored row out.
C12_Witness ==
  /\ IsFetchAll /\ last.policy = <<>> /\ current_user.present
  /\ last.where_sql.kind = "default" /\ last.where_sql.conds # {}
  /\ ~WhereTruthy(last.where) /\ Unlimited
  /\ Len(last.fetched) < Len(rows)

\* C13: when construction has logged that SQL_OPTIMIZED_POLICY differs from
\* default_policy(), every fetch runs with the conservative fragment: "1=1" for a
\* user that is present, the public-rows fragment otherwise, whatever the policy.
C13_ConservativeAfterMismatch ==
  (warned /\ IsFetch)
    => last.where_sql = (IF current_user.present THEN AllRows ELSE PublicOnly)

\* What C14 says of a fetch: the fragment drops no row for a user that is
\* present, drops only rows with owner attributes otherwise, drops no row the
\* evaluator permits, and an unlimited fetch of a user that is present returns
\* exactly the rows that match where and that the evaluator permits.
ConservativeFetch ==
  /\ current_user.present => \A i \in 1..Len(rows) : Selected(i)
  /\ ~current_user.present
       => \A i \in 1..Len(rows) : ~Selected(i) => Truthy(Loaded(Stored(i)))
  /\ \A i \in 1..Len(rows) : Permits(last.policy, i, current_user) => Selected(i)
  /\ (current_user.present /\ Unlimited)
       => \A i \in 1..Len(rows) :
            Returned(rows[i]) <=> (WhereMatches(i) /\ Permits(last.policy, i, current_user))

\* C14 as stated: every fetch with a policy other than the default policy is as
\* described above.
C14_OtherPoliciesConservative ==
  (IsFetchAll /\ last.policy # default_policy) => ConservativeFetch

\* C14 amended: every fetch with a non-empty policy other than the default policy
\* is as described above.
C14_CustomPoliciesConservative ==
  (IsFetchAll /\ last.policy \notin {<<>>, default_policy}) => ConservativeFetch

\* C14 witness: under the owner-based custom policy the query fetched two rows
\* with owner attributes and the evaluator kept one.
C14_Witness ==
  /\ IsFetchAll /\ last.policy = RoleOwners /\ current_user.present /\ Unlimited
  /\ Len(last.fetched) = 2 /\ Len(last.rows) = 1
  /\ \A i \in 1..Len(rows) : Truthy(Loaded(Stored(i)))

RECURSIVE IsSubsequence(_, _)
IsSubsequence(a, b) ==
  IF a = <<>> THEN TRUE
  ELSE IF b = <<>> THEN FALSE
  ELSE IF Head(a) = Head(b) THEN IsSubsequence(Tail(a), Tail(b))
  ELSE IsSubsequence(a, Tail(b))

\* C16: the rows authorized_fetch_all returns are a subsequence of the rows its
\* query fetched, in the same order, and no more than limit when a limit is given.
C16_SubsequenceWithinLimit ==
  IsFetchAll
    => /\ IsSubsequence(last.rows, last.fetched)
       /\ last.limit.given => Len(last.rows) <= last.limit.n

\* Whether the i-th stored row comes before the j-th in the order of the last
\* fetch: by the order_by columns, and by position in the table among equals.
ComesBefore(i, j) ==
  \/ Before(rows[i], rows[j], last.order_by)
  \/ (~Before(rows[j], rows[i], last.order_by) /\ i < j)

\* The stored rows the query of the last fetch selects, and the first of them.
Candidate(i) == WhereMatches(i) /\ Selected(i)

IsFirst(i) ==
  Candidate(i) /\ \A j \in 1..Len(rows) : (Candidate(j) /\ j # i) => ComesBefore(i, j)

\* C17: fetch_one returns the first row its where and where_sql select in the
\* order asked for, and nothing when they select none; authorized_fetch_one
\* returns that first row when the evaluator permits it and nothing otherwise,
\* which is the result of authorized_fetch_all with limit 1.
C17_FetchOneIsFirstOfLimitOne ==
  /\ (last.op = "fetch_one" /\ last.raised = "")
       => /\ (\E i \in 1..Len(rows) : Candidate(i)) <=> last.rows # <<>>
          /\ \A i \in 1..Len(rows) : IsFirst(i) => last.rows = <<LoadRow(rows[i])>>
  /\ (last.op = "authorized_fetch_one" /\ last.raised = "")
       => /\ last.rows # <<>>
               <=> \E i \in 1..Len(rows) : IsFirst(i) /\ Permits(last.policy, i, current_user)
          /\ \A i \in 1..Len(rows) :
               (IsFirst(i) /\ Permits(last.policy, i, current_user))
                 => last.rows = <<LoadRow(rows[i])>>

\* C17 witness: authorized_fetch_one in descending order of id hands back the
\* row stored second, out of two rows the user may read.
C17_Witness ==
  /\ last.op = "authorized_fetch_one" /\ last.raised = ""
  /\ last.order_by = << <<"id", "desc">> >> /\ ~WhereTruthy(last.where)
  /\ Len(rows) = 2 /\ rows[1].id < rows[2].id
  /\ \A i \in 1..Len(rows) : Permits(last.policy, i, current_user)
  /\ Truthy(Loaded(Stored(1))) /\ Truthy(Loaded(Stored(2)))
  /\ last.rows = <<LoadRow(rows[2])>>

\* The values a user holds for a category.
Held(user, category) ==
  IF user.attributes.kind = "dict" /\ category \in DOMAIN user.attributes.map
  THEN {user.attributes.map[category][i] : i \in 1..Len(user.attributes.map[category])}
  ELSE {}

\* For every category among roles, teams, projects, namespaces that the row's
\* attributes contain, the user holds one of the row's values.
CategoryRule(owned, user) ==
  \A c \in {"roles", "teams", "projects", "namespaces"} \cap DOMAIN owned.map :
    \E k \in 1..Len(owned.map[c]) : owned.map[c][k] \in Held(user, c)

\* C18: under the default policy a user with attributes is returned a row with
\* non-empty access_attributes if and only if, for every category among roles,
\* teams, projects, namespaces the row contains, the user holds one of the row's
\* values for it.
C18_CategoryRule ==
  (IsFetchAll /\ IsDefault(last.policy) /\ ~WhereTruthy(last.where) /\ Unlimited
     /\ current_user.present /\ Truthy(current_user.attributes))
    => \A i \in 1..Len(rows) :
         Truthy(Loaded(Stored(i)))
           => (Returned(rows[i]) <=> CategoryRule(Loaded(Stored(i)), current_user))

\* C15: a call of create_table_with_access_control succeeds and leaves the table
\* in the database with an access_attributes column, whether the table was
\* absent, lacked the column or had it; it changes no stored row, and changes
\* nothing of a table that has the column already.
C15_EnsuresColumn ==
  [][last'.op = "create_table_with_access_control"
       => /\ last'.raised = ""
          /\ database'.exists /\ "access_attributes" \in database'.columns
          /\ rows' = rows
          /\ (creating.before.exists /\ "access_attributes" \in creating.before.columns)
               => database' = creating.before]_vars

(***************************************************************************)
(* Properties of the route guards.                                         *)
(***************************************************************************)
\* A guard call that met a condition string that does not parse: every call of
\* the decorator, and every call of the middleware on a route whose
\* access_control is a non-empty string.
MetUnparseable ==
  /\ guard.guard \in {"decorator", "middleware"}
  /\ parse_condition(guard.condition).kind = "ValueError"
  /\ guard.guard = "middleware" => guard.condition # <<>>

\* The call did not let the request through, and what the caller sees is a
\* denial, not the parse error.
Denied ==
  /\ guard.evaluated /\ ~guard.allowed
  /\ guard.invoked = 0
  /\ guard.raised \notin {"ValueError", "AttributeError"}
  /\ (guard.guard = "decorator" => guard.raised = "AccessDeniedError")
  /\ (guard.guard = "middleware" => guard.sent # <<>>)

\* C9 as stated: for every user, and for no user, both route guards'
\* _evaluate_policy answer false to a condition string that does not parse, the
\* request is not let through, and the caller sees a denial, not the parse error.
C9_UnparseableDeniesAnyUser == MetUnparseable => Denied

\* C9, amended: for every user that is present both route guards'
\* _evaluate_policy answer false to a condition string that does not parse, the
\* request is not let through, and the caller sees a denial, not the parse
\* error; with no user the decorator denies in the same way, and the middleware
\* answers true without parsing the string and forwards the request.
C9_UnparseableDenies ==
  MetUnparseable
    => IF guard.user.present \/ guard.guard = "decorator"
       THEN Denied
       ELSE /\ guard.evaluated /\ guard.allowed
            /\ guard.invoked = 1
            /\ guard.sent = <<>>
            /\ guard.raised = ""

\* C9 witness: the middleware has answered 403 to a user for a condition that does
\* not parse.
C9_Witness ==
  /\ guard.guard = "middleware" /\ guard.evaluated /\ guard.user.present
  /\ Truthy(guard.user.attributes)
  /\ guard.condition = <<"user", "has", "a">>
  /\ guard.sent = <<ResponseStart403, ResponseBody>>

\* C10: a function wrapped by requires_access runs only when _evaluate_policy is
\* true for the current user; otherwise, and always when there is no user,
\* AccessDeniedError is raised and the function is not invoked.
C10_DecoratorGuards ==
  guard.guard = "decorator"
    => LET allowed == decorator_evaluate_policy(guard.condition, guard.user).allowed
       IN /\ guard.invoked = (IF allowed THEN 1 ELSE 0)
          /\ (allowed => guard.raised = "")
          /\ (~allowed => guard.raised = "AccessDeniedError")
          /\ (~guard.user.present => (guard.raised = "AccessDeniedError" /\ guard.invoked = 0))

\* C10 witness: a call without a user refused although the condition is one a user
\* could meet; and (second conjunct of the state) nothing was invoked.
C10_Witness ==
  /\ guard.guard = "decorator" /\ ~guard.user.present
  /\ guard.condition = <<"user", "with", "a", "not", "in", "roles">>
  /\ guard.raised = "AccessDeniedError" /\ guard.invoked = 0

\* C11: with no user in the request scope the middleware forwards the request to
\* the downstream app whatever the route's access_control: it sends no 403, and
\* where it evaluates the policy the answer is true.
C11_MiddlewareForwardsAnonymous ==
  (guard.guard = "middleware" /\ ~guard.user.present)
    => /\ guard.invoked = 1
       /\ guard.sent = <<>>
       /\ guard.raised = ""
       /\ (guard.evaluated => guard.allowed)

\* C11 witness: a request without a user forwarded on a route whose condition
\* does not even parse.
C11_Witness ==
  /\ guard.guard = "middleware" /\ ~guard.user.present
  /\ guard.evaluated /\ guard.condition = <<"invalid", "condition", "format">>
  /\ guard.invoked = 1

\* What the route guards are to answer to a parseable condition.
GuardExpected(words, user) ==
  IF Len(words) = 5 /\ words[2] = "with" /\ words[4] = "in"
  THEN words[3] \in Held(user, words[5])
  ELSE IF Len(words) = 6 /\ words[2] = "with" /\ words[4] = "not"
  THEN words[3] \notin Held(user, words[6])
  ELSE FALSE

\* C20: for a user that is present, _evaluate_policy of both route guards is true
\* for "user with V in C" exactly when V is among the user's values for C, true
\* for "user with V not in C" exactly when it is not, and false for the four
\* other parseable forms.
C20_GuardForms ==
  (guard.guard \in {"decorator", "middleware"} /\ guard.evaluated
     /\ guard.user.present /\ guard.condition \in Parseable)
    => guard.allowed = GuardExpected(guard.condition, guard.user)

\* C20 witness: a user whose attributes are null passes "user with a not in
\* roles" at the decorator.
C20_Witness ==
  /\ guard.guard = "decorator" /\ guard.user.present
  /\ guard.user.attributes = PyNone
  /\ guard.condition = <<"user", "with", "a", "not", "in", "roles">>
  /\ guard.allowed /\ guard.invoked = 1

(***************************************************************************)
(* Properties of concurrent requests.                                      *)
(***************************************************************************)
\* The attributes authorized_insert is to store for a user.
Captured(user) ==
  IF user.present /\ Truthy(user.attributes) THEN user.attributes ELSE PyNone

\* C19: however the calls of two requests interleave, an authorized_insert stores
\* the attributes of its own request's user, and an authorized_fetch_all is
\* pre-filtered and re-checked against its own request's user.
C19_OwnIdentity ==
  \A r \in Requests :
    LET q == requests[r]
    IN /\ q.pc \in {"inserting", "inserted"} => q.enhanced = Key(Captured(q.user))
       /\ q.pc = "inserted"
            => \E i \in 1..Len(rows) :
                 rows[i].id = q.id /\ Stored(i) = JsonCell(Captured(q.user))
       /\ q.pc \in {"querying", "fetched", "returned"}
            => q.access_where = _build_access_control_where_clause(q.policy, q.user)
       /\ q.pc = "returned"
            => q.result = SelectSeq(q.fetched, LAMBDA row : PermitsRow(q.policy, row, q.user))

\* C19 witness: a fetch has returned while another principal's call was in
\* flight, with rows that principal would not have got.
C19_Witness ==
  \E r \in Requests :
    LET q == requests[r]
        o == requests[Other(r)]
    IN /\ q.pc = "returned" /\ o.pc \in {"inserting", "querying", "fetched"}
       /\ q.user.present /\ o.user.present /\ q.user # o.user
       /\ q.result # <<>>
       /\ q.result # SelectSeq(q.fetched, LAMBDA row : PermitsRow(q.policy, row, o.user))

(***************************************************************************)
(* The middleware's two outcomes.                                          *)
(***************************************************************************)
\* Whether a route's policy is true of the scope's user: a route guard with no
\* user assumes authentication is off; otherwise only the two "user with" forms
\* can be true.
PolicyTrue(words, user) ==
  \/ ~user.present
  \/ (words \in Parseable /\ GuardExpected(words, user))

\* C21: on a route with an access_control policy (a non-empty string) and a user
\* in scope for whom the policy is false, the middleware sends http.response.start
\* with status 403 first, then one http.response.body (both once no send has
\* raised and it has returned), and at no point invokes the downstream app; on
\* a route without a policy, or when the policy is true, it invokes the
\* downstream app exactly once and sends nothing itself.
C21_DenyOrForward ==
  guard.guard = "middleware"
    => IF guard.condition # <<>> /\ guard.user.present
          /\ ~PolicyTrue(guard.condition, guard.user)
       THEN /\ guard.invoked = 0
            /\ guard.sent \in {<<ResponseStart403>>, <<ResponseStart403, ResponseBody>>}
            /\ (guard.pc = "start" => guard.sent = <<ResponseStart403>>)
            /\ (guard.pc = "done" /\ guard.raised = "")
                 => guard.sent = <<ResponseStart403, ResponseBody>>
       ELSE /\ guard.invoked = 1
            /\ guard.sent = <<>>

\* C21 witness: a user who holds role a but no team is refused on a route that
\* asks for team b, and the downstream app was not invoked.
C21_Witness ==
  /\ guard.guard = "middleware" /\ guard.user.present
  /\ guard.user.attributes = Attrs1("roles", <<"a">>)
  /\ guard.condition = <<"user", "with", "b", "in", "teams">>
  /\ guard.sent = <<ResponseStart403, ResponseBody>>
  /\ guard.pc = "done" /\ guard.raised = ""
  /\ guard.invoked = 0

(***************************************************************************)
(* Properties of the plain queries.                                        *)
(***************************************************************************)
ValidOrderBy(order_by) == \A i \in 1..Len(order_by) : order_by[i][2] \in {"asc", "desc"}

\* The stored rows a fetch with this where and where_sql is about, as loaded.
Matching(where, where_sql) ==
  {LoadRow(rows[i]) : i \in {j \in 1..Len(rows) :
      /\ (WhereTruthy(where) => MatchesWhere(rows[j], where))
      /\ EvalWhereSql(where_sql, rows[j].access_attributes)}}

\* C22: a fetch_all with a malformed where_sql ends in an error and hands back
\* no rows (the backend's OperationalError when its order_by is valid), and it
\* leaves the table as it was; once a query has failed, a fetch_all with
\* well-formed arguments still succeeds, and without a limit it returns exactly
\* the stored rows that match.
C22_MalformedWhereSqlSurfaces ==
  [][/\ (last.op = "none" /\ last'.op = "fetch_all" /\ last'.where_sql = Malformed)
          => /\ last'.raised # ""
             /\ (ValidOrderBy(last'.order_by) => last'.raised = "OperationalError")
             /\ last'.rows = <<>>
             /\ rows' = rows
     /\ (failed_query /\ last.op = "none" /\ last'.op = "fetch_all"
           /\ last'.where_sql # Malformed /\ ValidOrderBy(last'.order_by))
          => /\ last'.raised = ""
             /\ rows' = rows
             /\ (~last'.limit.given =>
                   /\ {last'.rows[i] : i \in 1..Len(last'.rows)}
                        = Matching(last'.where, last'.where_sql)
                   /\ Len(last'.rows) = Cardinality(Matching(last'.where, last'.where_sql)))
    ]_vars

\* C22 witness: after a query has failed, a fetch without where_sql returns both
\* stored rows.
C22_Witness ==
  /\ failed_query
  /\ last.op = "fetch_all" /\ last.where_sql = NoWhereSql /\ ~WhereTruthy(last.where)
  /\ last.raised = "" /\ Len(rows) = 2 /\ Len(last.rows) = 2

\* Row a may stand before row b under the list: at the first listed column in
\* which they differ, a has the smaller value if the direction is asc and the
\* larger if it is desc.
MayPrecede(a, b, order_by) ==
  \/ \A k \in 1..Len(order_by) : a[order_by[k][1]] = b[order_by[k][1]]
  \/ \E k \in 1..Len(order_by) :
       /\ \A m \in 1..(k - 1) : a[order_by[m][1]] = b[order_by[m][1]]
       /\ a[order_by[k][1]] # b[order_by[k][1]]
       /\ (order_by[k][2] = "asc" => a[order_by[k][1]] < b[order_by[k][1]])
       /\ (order_by[k][2] = "desc" => a[order_by[k][1]] > b[order_by[k][1]])

\* C23: fetch_all with an order_by entry whose direction is neither asc nor desc
\* raises ValueError and returns no rows; with valid entries every returned row
\* stands before the rows after it in the order of the listed columns and
\* directions.
C23_OrderByChecked ==
  last.op = "fetch_all"
    => /\ ~ValidOrderBy(last.order_by) => (last.raised = "ValueError" /\ last.rows = <<>>)
       /\ (ValidOrderBy(last.order_by) /\ last.raised = "")
            => \A i, j \in 1..Len(last.rows) :
                 i < j => MayPrecede(last.rows[i], last.rows[j], last.order_by)

\* C23 witness: two rows of the same name, stored in the order of their ids, come
\* back by name ascending and then id descending.
C23_Witness ==
  /\ last.op = "fetch_all" /\ last.raised = ""
  /\ last.order_by = << <<"name", "asc">>, <<"id", "desc">> >>
  /\ Len(rows) = 2 /\ rows[1].id < rows[2].id /\ rows[1].name = rows[2].name
  /\ Len(last.rows) = 2 /\ last.rows[1].id > last.rows[2].id

(***************************************************************************)
(* Properties of the stored rows.                                          *)
(***************************************************************************)
\* C24: no store operation changes the access_attributes of a row that is in the
\* table before and after it.
C24_AccessAttributesImmutable ==
  [][\A i \in 1..Len(rows), j \in 1..Len(rows') :
       rows[i].id = rows'[j].id
         => rows'[j].access_attributes = rows[i].access_attributes]_vars

\* C25: a fetch_all with limit L >= 0 returns at most L rows, all of them rows
\* that match; when more than L rows match it returns exactly L, and no row left
\* out comes before a returned one in the requested order.
C25_AtMostLimit ==
  (last.op = "fetch_all" /\ last.raised = "" /\ last.limit.given)
    => LET returned == {last.rows[i] : i \in 1..Len(last.rows)}
           matching == Matching(last.where, last.where_sql)
       IN /\ Len(last.rows) <= last.limit.n
          /\ returned \subseteq matching
          /\ Cardinality(matching) > last.limit.n
               => /\ Len(last.rows) = last.limit.n
                  /\ \A r \in returned, m \in matching \ returned :
                       MayPrecede(r, m, last.order_by)

(***************************************************************************)
(* Properties of the authorized calls.                                     *)
(***************************************************************************)
\* C26: authorized_fetch_one returns a row if and only if the table holds a row
\* that matches where and that the evaluator permits the current user to read
\* under the call's policy.
C26_FetchOneFindsPermitted ==
  (last.op = "authorized_fetch_one" /\ last.raised = "")
    => (last.rows # <<>>
          <=> \E i \in 1..Len(rows) : WhereMatches(i) /\ Permits(last.policy, i, current_user))

\* The part of a user's attributes the default policy reads.
StandardPart(user) ==
  [k \in DOMAIN user.attributes.map \cap Elems(OwnerCategories) |-> user.attributes.map[k]]

\* Two users who differ at most in categories outside roles, teams, projects
\* and namespaces.
DifferOutsideOnly(u1, u2) ==
  /\ u1.present /\ u2.present
  /\ u1.principal = u2.principal
  /\ u1.attributes.kind = "dict" /\ u2.attributes.kind = "dict"
  /\ StandardPart(u1) = StandardPart(u2)

\* C27: under the default policy authorized_fetch_all returns the same rows to
\* any two users who differ only in a category outside roles, teams, projects
\* and namespaces.
C27_OtherCategoriesIgnored ==
  (IsFetchAll /\ IsDefault(last.policy))
    => \A u2 \in Users :
         DifferOutsideOnly(current_user, u2)
           => authorized_fetch_all(rows, last.policy, last.where, last.limit,
                                   last.order_by, u2).rows = last.rows

\* C28: after authorized_insert the new row's access_attributes is the current
\* user's attributes (null for no user or no attributes), whatever
\* access_attributes the caller's data held, and the caller's data mapping is as
\* it was before the call.
C28_CallerCannotChooseOwner ==
  last.op = "authorized_insert"
    => /\ rows # <<>>
       /\ Loaded(Stored(Len(rows))) = Captured(current_user)
       /\ last.data_after = last.data

\* C28 witness: the caller's data names role a, the current user holds team b,
\* and the row is stored with team b while the caller's data still names role a.
C28_Witness ==
  /\ last.op = "authorized_insert"
  /\ last.data = Key(Attrs1("roles", <<"a">>))
  /\ current_user.present /\ current_user.attributes = Attrs1("teams", <<"b">>)
  /\ Stored(Len(rows)) = JsonCell(Attrs1("teams", <<"b">>))
  /\ last.data_after = Key(Attrs1("roles", <<"a">>))

(***************************************************************************)
(* Properties of the login router.                                         *)
(***************************************************************************)
\* A step in which the callback route answers, or starts the token exchange,
\* for state s.
CallbackStep(s) ==
  /\ response'.route = "callback" /\ response'.state = s
  /\ exchanges'[s].finished = exchanges[s].finished
  /\ <<response, exchanges, oauth_states>>' # <<response, exchanges, oauth_states>>

\* C29: the callback route finds each state in the dict at most once and starts
\* at most one token exchange for it, none for a state no login issued; and a
\* callback with a state that was never issued, or that an earlier callback has
\* consumed, gets 400 "Invalid state parameter" and starts no token exchange.
C29_StateAcceptedOnce ==
  [][\A s \in Tokens \cup {Forged} :
       /\ exchanges'[s].accepted <= 1
       /\ exchanges'[s].started <= exchanges'[s].accepted
       /\ (s \notin issued' => exchanges'[s].accepted = 0)
       /\ (CallbackStep(s) /\ (s \notin issued \/ exchanges[s].accepted > 0))
            => /\ response'.status = 400
               /\ response'.detail = "Invalid state parameter"
               /\ exchanges' = exchanges
    ]_vars

\* C29 witness: the first callback of a state has started its token exchange and
\* ended, and a second callback with the same state was answered 400.
C29_Witness ==
  /\ exchanges[Token(1)].accepted = 1
  /\ exchanges[Token(1)].finished = 1
  /\ response = Response("callback", Token(1), 400, "Invalid state parameter")

\* A step in which the login route answers.
LoginStep ==
  /\ response'.route = "login"
  /\ <<response, oauth_states, issued>>' # <<response, oauth_states, issued>>

\* C30: a callback with a state issued more than 300 seconds before is answered
\* 400 and starts no token exchange, however old the state is; and after a login
\* the dict holds no state older than 300 seconds.
C30_ExpiredStatesRejected ==
  [][/\ \A s \in Tokens :
          (CallbackStep(s) /\ s \in DOMAIN oauth_states
             /\ clock - oauth_states[s].created_at > StateLifetime)
            => /\ response'.status = 400
               /\ exchanges'[s].started = exchanges[s].started
     /\ LoginStep
          => \A s \in DOMAIN oauth_states' :
               clock - oauth_states'[s].created_at <= StateLifetime
    ]_vars

====
